---- MODULE Spec2Model ----
(***************************************************************************)
(* Release tooling of kport: release.py (the release orchestrator),        *)
(* publish.py (the PyPI build/upload tool) and deb_publish.py (the Debian  *)
(* package build tool), modelled as one sequential state machine.          *)
(*                                                                         *)
(* Texts are sequences of one-character strings, so that the regular       *)
(* expressions of the version resolvers are computed character by          *)
(* character.  Optional values (Python's `str | None`) are records         *)
(* [ok, val]; None is [ok |-> FALSE, val |-> <<>>].                        *)
(***************************************************************************)
EXTENDS Integers, Sequences, FiniteSets, TLC

(***************************************************************************)
(* Optional values and Python truthiness                                   *)
(***************************************************************************)
None == [ok |-> FALSE, val |-> <<>>]

Some(v) == [ok |-> TRUE, val |-> v]

\* `not x` is true of None and of the empty string.
Truthy(o) == o.ok /\ o.val # <<>>

\* Python's `a or b`.
PyOr(a, b) == IF Truthy(a) THEN a ELSE b

(***************************************************************************)
(* Characters and the version patterns                                     *)
(***************************************************************************)
Kw == <<"v", "e", "r", "s", "i", "o", "n">>

IsSpace(c) == c \in {" ", "\t", "\n"}

IsQuote(c) == c \in {"\"", "'"}

\* \w of Python's re for the characters used here: letters, digits, underscore.
IsWord(c) == ~IsSpace(c) /\ ~IsQuote(c) /\ c \notin {"=", "-", ".", ",", "(", ")", ":"}

\* The first index >= i of t that does not hold a whitespace character (\s*).
RECURSIVE SkipSpaces(_, _)
SkipSpaces(t, i) ==
    IF i <= Len(t) /\ IsSpace(t[i]) THEN SkipSpaces(t, i + 1) ELSE i

\* The first index >= i of t that holds a quote, or Len(t) + 1 ([^"']+ is greedy).
RECURSIVE SkipNonQuotes(_, _)
SkipNonQuotes(t, i) ==
    IF i <= Len(t) /\ ~IsQuote(t[i]) THEN SkipNonQuotes(t, i + 1) ELSE i

\* version\s*=\s*["']([^"']+)["'] anchored at index i: group 1, or None.
MatchVersionAt(t, i) ==
    LET eq == SkipSpaces(t, i + Len(Kw))
        q1 == SkipSpaces(t, eq + 1)
        q2 == SkipNonQuotes(t, q1 + 1)
    IN  IF /\ i + Len(Kw) - 1 <= Len(t)
           /\ SubSeq(t, i, i + Len(Kw) - 1) = Kw
           /\ eq <= Len(t) /\ t[eq] = "="
           /\ q1 <= Len(t) /\ IsQuote(t[q1])
           /\ q2 > q1 + 1
           /\ q2 <= Len(t)
        THEN Some(SubSeq(t, q1 + 1, q2 - 1))
        ELSE None

\* \b before index i, where t[i] is a word character.
WordBoundaryBefore(t, i) == i = 1 \/ ~IsWord(t[i - 1])

\* str.strip()
RECURSIVE LStrip(_)
LStrip(s) == IF s # <<>> /\ IsSpace(Head(s)) THEN LStrip(Tail(s)) ELSE s

RECURSIVE RStrip(_)
RStrip(s) ==
    IF s # <<>> /\ IsSpace(s[Len(s)]) THEN RStrip(SubSeq(s, 1, Len(s) - 1)) ELSE s

Strip(s) == RStrip(LStrip(s))

\* re.search: the match at the leftmost index that has one.
ReleaseMatchIndexes(t) == {i \in 1..Len(t) : MatchVersionAt(t, i).ok}

DebMatchIndexes(t) ==
    {i \in 1..Len(t) : WordBoundaryBefore(t, i) /\ MatchVersionAt(t, i).ok}

Min(S) == CHOOSE x \in S : \A y \in S : x <= y

\* release.py read_version_from_setup; setup is None when setup.py is missing.
read_version_from_setup(setup) ==
    IF ~setup.ok THEN None
    ELSE LET m == ReleaseMatchIndexes(setup.val)
         IN  IF m = {} THEN None
             ELSE Some(Strip(MatchVersionAt(setup.val, Min(m)).val))

\* deb_publish.py read_project_version
read_project_version(setup) ==
    IF ~setup.ok THEN None
    ELSE LET m == DebMatchIndexes(setup.val)
         IN  IF m = {} THEN None
             ELSE Some(Strip(MatchVersionAt(setup.val, Min(m)).val))

(***************************************************************************)
(* The output of dpkg-checkbuilddeps                                       *)
(***************************************************************************)
Uppers ==
    <<"A", "B", "C", "D", "E", "F", "G", "H", "I", "J", "K", "L", "M",
      "N", "O", "P", "Q", "R", "S", "T", "U", "V", "W", "X", "Y", "Z">>

Lowers ==
    <<"a", "b", "c", "d", "e", "f", "g", "h", "i", "j", "k", "l", "m",
      "n", "o", "p", "q", "r", "s", "t", "u", "v", "w", "x", "y", "z">>

Digits == {"0", "1", "2", "3", "4", "5", "6", "7", "8", "9"}

\* re.IGNORECASE compares characters by their lower case.
LowerChar(c) ==
    IF \E i \in DOMAIN Uppers : Uppers[i] = c
    THEN Lowers[CHOOSE i \in DOMAIN Uppers : Uppers[i] = c]
    ELSE c

LowerText(s) == [i \in 1..Len(s) |-> LowerChar(s[i])]

\* "Unmet build dependencies:" in lower case.
Marker ==
    <<"u", "n", "m", "e", "t", " ", "b", "u", "i", "l", "d", " ",
      "d", "e", "p", "e", "n", "d", "e", "n", "c", "i", "e", "s", ":">>

\* The indexes of `output` where the marker starts, in any case.
MarkerIndexes(output) ==
    {i \in 1..(Len(output) - Len(Marker) + 1) :
        LowerText(SubSeq(output, i, i + Len(Marker) - 1)) = Marker}

\* The first index >= i of t that holds a newline, or Len(t) + 1 (.*$ with
\* re.MULTILINE).
RECURSIVE LineEnd(_, _)
LineEnd(t, i) ==
    IF i <= Len(t) /\ t[i] # "\n" THEN LineEnd(t, i + 1) ELSE i

\* str.split(",")
RECURSIVE SplitCommas(_)
SplitCommas(s) ==
    LET commas == {i \in 1..Len(s) : s[i] = ","}
    IN  IF commas = {} THEN <<s>>
        ELSE <<SubSeq(s, 1, Min(commas) - 1)>>
             \o SplitCommas(SubSeq(s, Min(commas) + 1, Len(s)))

\* [a-z0-9+.-] with re.IGNORECASE
IsPkgChar(c) ==
    \/ \E i \in DOMAIN Lowers : Lowers[i] = LowerChar(c)
    \/ c \in Digits
    \/ c \in {"+", ".", "-"}

\* The first index >= i of p that holds no package-name character.
RECURSIVE NameEnd(_, _)
NameEnd(p, i) ==
    IF i <= Len(p) /\ IsPkgChar(p[i]) THEN NameEnd(p, i + 1) ELSE i

\* Lines 204-212: the stripped non-empty tokens of `deps`, each cut down to
\* its leading package name; tokens without one are dropped.
PackageNames(deps) ==
    LET tokens == SplitCommas(deps)
        stripped == [i \in 1..Len(tokens) |-> Strip(tokens[i])]
        parts == SelectSeq(stripped, LAMBDA p : p # <<>>)
        names == [i \in 1..Len(parts) |-> SubSeq(parts[i], 1, NameEnd(parts[i], 1) - 1)]
    IN  SelectSeq(names, LAMBDA n : n # <<>>)

\* Group 1 of "Unmet build dependencies:\s*(.*)$" at the leftmost match.
UnmetGroup(output) ==
    LET from == SkipSpaces(output, Min(MarkerIndexes(output)) + Len(Marker))
    IN  SubSeq(output, from, LineEnd(output, from) - 1)

\* deb_publish.py _parse_unmet_build_deps
parse_unmet_build_deps(output) ==
    IF MarkerIndexes(output) = {} THEN <<>>
    ELSE PackageNames(UnmetGroup(output))

\* The output parsed whatever the return code.
check_debian_build_deps_AnyCode(proc) ==
    IF ~proc.available THEN <<>>
    ELSE parse_unmet_build_deps(proc.stdout \o <<"\n">> \o proc.stderr)

\* deb_publish.py check_debian_build_deps; `proc` is what became of the
\* helper: on PATH or not, its return code, its stdout and stderr.
check_debian_build_deps(proc) ==
    IF ~proc.available THEN <<>>
    ELSE IF proc.returncode = 0 THEN <<>>
    ELSE parse_unmet_build_deps(proc.stdout \o <<"\n">> \o proc.stderr)

(***************************************************************************)
(* Inputs: the contents of setup.py the runs are started on                *)
(***************************************************************************)
TextDq1 == Kw \o <<"=", "\"", "1", "\"">>

TextSq2 == Kw \o <<" ", "=", " ", "'", "2", "'">>

TextNoVersion == <<"n", "=", "\"", "k", "\"">>

TextPrefixed == <<"_">> \o Kw \o <<"=", "'", "2", "'", "\n">> \o TextDq1

TextBlank == Kw \o <<"=", "\"", " ", "\"">>

SetupTexts ==
    {None, Some(TextDq1), Some(TextSq2), Some(TextNoVersion), Some(TextPrefixed),
     Some(TextBlank)}

\* Command-line versions: --version absent, or given.
ArgVersions == {None, Some(<<"1">>), Some(<<"2">>)}

\* argparse's namespace of release.py (lines 289-295).
ArgSets ==
    [version : ArgVersions, no_pypi : BOOLEAN, no_deb : BOOLEAN,
     no_github : BOOLEAN, dry_run : BOOLEAN]

NoArgs ==
    [version |-> None, no_pypi |-> FALSE, no_deb |-> FALSE, no_github |-> FALSE,
     dry_run |-> FALSE]

\* What the operator types at a y/N prompt.
RawAnswers == {<<"y">>, <<"Y", "E", "S">>, <<" ", "y", " ">>, <<"n">>, <<>>}

Lower(s) ==
    [i \in 1..Len(s) |->
        CASE s[i] = "Y" -> "y" [] s[i] = "E" -> "e" [] s[i] = "S" -> "s"
          [] s[i] = "N" -> "n" [] OTHER -> s[i]]

\* confirm in ("y", "yes")
IsYes(raw) == Lower(Strip(raw)) \in {<<"y">>, <<"y", "e", "s">>}

\* The prompts of publish.py lower the answer without stripping it.
PubIsYes(raw) == Lower(raw) \in {<<"y">>, <<"y", "e", "s">>}

\* Return codes of a subprocess: 0, a failure status, death by a signal.
RetCodes == {0, 1, -9}

\* Negative return codes taken for success.
ExitStatus_NegativeIsZero(rc) == IF rc < 0 THEN 0 ELSE rc

\* The exit status the parent observes after sys.exit(rc).
ExitStatus(rc) == rc % 256

\* No exit yet.
Running == 0 - 1

\* Files of the stable output directories.
WheelNames == {"kport.whl"}

SdistNames == {"kport.tar.gz"}

DebNames == {"kport.deb", "kport-dbgsym.deb"}

\* What `python -m build` leaves in dist/ when it exits 0.
BuildOutputs == {WheelNames \cup SdistNames, SdistNames}

\* What dpkg-buildpackage leaves in the build's parent directory when it exits 0.
DebOutputs == {{}, {"kport.deb"}, DebNames}

Tag(v) == <<"v">> \o v

VARIABLES
    \* the environment, kept from run to run
    tags,          \* the tags of the repository
    dist,          \* the files of dist/
    distDeb,       \* the files of dist/deb/
    \* the run of the tool started from the shell
    tool,          \* "none", "release", "publish" or "deb"
    setup,         \* the contents of setup.py (None: missing)
    gitClean,      \* whether `git status --porcelain` prints nothing
    envBefore,     \* tags, dist/ and dist/deb/ when the run started
    calls,         \* the state-changing subprocesses invoked so far, in order
    \* release.py main
    pc, args,
    current_version,  \* what read_version_from_setup returned to main
    version, tag, confirmed, pypi_success, deb_success, notes,
    ghResult, assets, summary, exitCode, abortedAt, interrupted, attempted,
    run_rc,        \* result.returncode of the last run_command of step 4 (Running: none yet)
    \* publish.py main
    pubPc, pubChoice, pubStdin, pubExit,
    \* deb_publish.py main
    debPc, debChoice, debStdin, debExit, debEnd, unmet, debVersion,
    read_version,  \* what read_project_version returned to generate_debian_skeleton
    tmpDir, buildParent,
    before, copied,
    proc,          \* what became of dpkg-checkbuilddeps in check_debian_build_deps
    deb,           \* what build_deb returned to main (None: nothing yet, or none)
    builderRc,     \* the return code of dpkg-buildpackage (Running: not yet)
    skeletonDirs,  \* the trees that hold a generated debian/ ("tmp", "repo")
    dh,            \* what `dh --version` did for the skeleton in the temporary tree
    compat,        \* the level _debhelper_compat_level returned for that skeleton
    compatFile     \* the text of debian/compat in the temporary tree (<<>>: no file)

envVars == <<tags, dist, distDeb>>

runVars == <<tool, setup, gitClean, envBefore, calls>>

relVars ==
    <<pc, args, current_version, version, tag, confirmed, pypi_success, deb_success, notes,
      ghResult, assets, summary, exitCode, abortedAt, interrupted, attempted,
      run_rc>>

pubVars == <<pubPc, pubChoice, pubStdin, pubExit>>

debVars ==
    <<debPc, debChoice, debStdin, debExit, debEnd, unmet, debVersion, read_version, tmpDir, buildParent,
      before, copied, proc, deb, builderRc, skeletonDirs, dh, compat, compatFile>>

vars == <<envVars, runVars, relVars, pubVars, debVars>>

RelInit ==
    /\ pc = "Idle"
    /\ args = NoArgs
    /\ current_version = None
    /\ version = <<>>
    /\ tag = <<>>
    /\ confirmed = "unasked"
    /\ pypi_success = TRUE
    /\ deb_success = TRUE
    /\ notes = "none"
    /\ ghResult = "none"
    /\ assets = {}
    /\ summary = {}
    /\ exitCode = Running
    /\ abortedAt = "none"
    /\ interrupted = FALSE
    /\ attempted = {}
    /\ run_rc = Running

PubInit ==
    /\ pubPc = "off"
    /\ pubChoice = ""
    /\ pubStdin = "tty"
    /\ pubExit = Running

\* `dh --version` has not been run.
NoHelper == [available |-> FALSE, returncode |-> Running, out |-> <<>>]

\* dpkg-checkbuilddeps has not been looked for.
NoProc == [available |-> FALSE, returncode |-> Running, stdout |-> <<>>, stderr |-> <<>>]

DebInit ==
    /\ debPc = "off"
    /\ debChoice = ""
    /\ debStdin = "tty"
    /\ debExit = Running
    /\ debEnd = "running"
    /\ unmet = <<>>
    /\ debVersion = <<>>
    /\ read_version = None
    /\ tmpDir = "none"
    /\ buildParent = {}
    /\ before = {}
    /\ copied = {}
    /\ proc = NoProc
    /\ deb = None
    /\ builderRc = Running
    /\ skeletonDirs = {}
    /\ dh = NoHelper
    /\ compat = 0
    /\ compatFile = <<>>

RunInit ==
    /\ tool = "none"
    /\ setup = None
    /\ gitClean = TRUE
    /\ envBefore = [tags |-> {}, dist |-> {}, distDeb |-> {}]
    /\ calls = <<>>

Init ==
    /\ tags = {}
    /\ dist = {}
    /\ distDeb = {}
    /\ RunInit
    /\ RelInit
    /\ PubInit
    /\ DebInit

(***************************************************************************)
(* release.py                                                              *)
(***************************************************************************)

\* sys.exit(code) in main, at the state `at`.
RelExit(code, at) ==
    /\ pc' = "Aborted"
    /\ exitCode' = code
    /\ abortedAt' = at

\* run_command that goes on whatever the return code.
run_command_Unchecked(cmd, rc, at, next) ==
    /\ calls' = Append(calls, cmd)
    /\ run_rc' = rc
    /\ pc' = next
    /\ UNCHANGED <<exitCode, abortedAt>>

\* run_command(cmd, description) with check=True (lines 67-86): the subprocess
\* `cmd` ends with rc; a non-zero rc exits main with it.
run_command(cmd, rc, at, next) ==
    /\ calls' = Append(calls, cmd)
    /\ run_rc' = rc
    /\ IF rc # 0
       THEN RelExit(ExitStatus(rc), at)
       ELSE /\ pc' = next
            /\ UNCHANGED <<exitCode, abortedAt>>

\* The shell starts release.py.
StartRelease ==
    /\ tool = "none"
    /\ \E a \in ArgSets, s \in SetupTexts, c \in BOOLEAN :
          /\ args' = a
          /\ setup' = s
          /\ gitClean' = c
    /\ tool' = "release"
    /\ pc' = "ResolvingVersion"
    /\ envBefore' = [tags |-> tags, dist |-> dist, distDeb |-> distDeb]
    /\ UNCHANGED <<envVars, calls, pubVars, debVars>>
    /\ UNCHANGED <<run_rc, current_version, version, tag, confirmed, pypi_success, deb_success, notes,
                   ghResult, assets, summary, exitCode, abortedAt, interrupted,
                   attempted>>

\* Step 1 (lines 299-306).
ResolveVersion ==
    /\ tool = "release" /\ pc = "ResolvingVersion"
    /\ current_version' = read_version_from_setup(setup)
    /\ IF ~Truthy(current_version')
       THEN /\ RelExit(1, "ResolvingVersion")
            /\ UNCHANGED <<version, tag>>
       ELSE /\ version' = PyOr(args.version, current_version').val
            /\ tag' = Tag(version')
            /\ pc' = "ValidatingState"
            /\ UNCHANGED <<exitCode, abortedAt>>
    /\ UNCHANGED <<envVars, runVars, pubVars, debVars>>
    /\ UNCHANGED <<args, run_rc, confirmed, pypi_success, deb_success, notes, ghResult,
                   assets, summary, interrupted,
                   attempted>>

check_git_status == gitClean

\* The tag looked up without its "v" prefix.
check_tag_exists_NoPrefix(t) == Tail(t) \in tags

check_tag_exists(t) == t \in tags

\* Step 2 with the repository check only.
ValidateState_NoTagCheck ==
    /\ tool = "release" /\ pc = "ValidatingState"
    /\ IF ~check_git_status
       THEN RelExit(1, "ValidatingState")
       ELSE /\ pc' = "AwaitingConfirmation"
            /\ UNCHANGED <<exitCode, abortedAt>>
    /\ UNCHANGED <<envVars, runVars, pubVars, debVars>>
    /\ UNCHANGED <<args, run_rc, current_version, version, tag, confirmed, pypi_success, deb_success, notes,
                   ghResult, assets, summary, interrupted,
                   attempted>>

\* Step 2 (lines 314-329).
ValidateState ==
    /\ tool = "release" /\ pc = "ValidatingState"
    /\ IF ~check_git_status
       THEN RelExit(1, "ValidatingState")
       ELSE IF check_tag_exists(tag)
            THEN RelExit(1, "ValidatingState")
            ELSE /\ pc' = "AwaitingConfirmation"
                 /\ UNCHANGED <<exitCode, abortedAt>>
    /\ UNCHANGED <<envVars, runVars, pubVars, debVars>>
    /\ UNCHANGED <<args, run_rc, current_version, version, tag, confirmed, pypi_success, deb_success, notes,
                   ghResult, assets, summary, interrupted,
                   attempted>>

\* Step 3 going on to Tagging whatever the operator answers.
Confirm_IgnoresAnswer ==
    /\ tool = "release" /\ pc = "AwaitingConfirmation"
    /\ IF args.dry_run
       THEN UNCHANGED confirmed
       ELSE \E raw \in RawAnswers :
               confirmed' = IF IsYes(raw) THEN "yes" ELSE "no"
    /\ pc' = "Tagging"
    /\ UNCHANGED <<envVars, runVars, pubVars, debVars>>
    /\ UNCHANGED <<args, run_rc, current_version, version, tag, pypi_success, deb_success, notes, ghResult,
                   assets, summary, attempted, exitCode, abortedAt, interrupted>>

\* Step 3 (lines 331-337); Ctrl-C at the prompt ends in __main__ (395-397).
Confirm ==
    /\ tool = "release" /\ pc = "AwaitingConfirmation"
    /\ IF args.dry_run
       THEN /\ pc' = "Tagging"
            /\ UNCHANGED <<confirmed, exitCode, abortedAt, interrupted>>
       ELSE \/ \E raw \in RawAnswers :
                 IF IsYes(raw)
                 THEN /\ confirmed' = "yes"
                      /\ pc' = "Tagging"
                      /\ UNCHANGED <<exitCode, abortedAt, interrupted>>
                 ELSE /\ confirmed' = "no"
                      /\ RelExit(0, "AwaitingConfirmation")
                      /\ UNCHANGED interrupted
            \/ /\ interrupted' = TRUE
               /\ RelExit(1, "AwaitingConfirmation")
               /\ UNCHANGED confirmed
    /\ UNCHANGED <<envVars, runVars, pubVars, debVars>>
    /\ UNCHANGED <<args, run_rc, current_version, version, tag, pypi_success, deb_success, notes, ghResult,
                   assets, summary, attempted>>

\* Step 4 without the dry-run test of line 342.
CreateTag_IgnoresDryRun ==
    /\ tool = "release" /\ pc = "Tagging"
    /\ \E rc \in RetCodes :
          /\ run_command("git tag", rc, "Tagging", "PushingCommits")
          /\ tags' = IF rc = 0 THEN tags \cup {tag} ELSE tags
    /\ UNCHANGED <<dist, distDeb, tool, setup, gitClean, envBefore, pubVars, debVars>>
    /\ UNCHANGED <<args, current_version, version, tag, confirmed, pypi_success, deb_success, notes,
                   ghResult, assets, summary, interrupted, attempted>>

\* Step 4 (lines 339-347): create the tag, or only say so in a dry run.
CreateTag ==
    /\ tool = "release" /\ pc = "Tagging"
    /\ IF args.dry_run
       THEN /\ pc' = "BuildingPyPI"
            /\ UNCHANGED <<tags, calls, exitCode, abortedAt, run_rc>>
       ELSE \E rc \in RetCodes :
               /\ run_command("git tag", rc, "Tagging", "PushingCommits")
               /\ tags' = IF rc = 0 THEN tags \cup {tag} ELSE tags
    /\ UNCHANGED <<dist, distDeb, tool, setup, gitClean, envBefore, pubVars, debVars>>
    /\ UNCHANGED <<args, current_version, version, tag, confirmed, pypi_success, deb_success, notes,
                   ghResult, assets, summary, interrupted,
                   attempted>>

\* Line 344.
PushCommits ==
    /\ tool = "release" /\ pc = "PushingCommits"
    /\ \E rc \in RetCodes : run_command("git push main", rc, "Tagging", "PushingTags")
    /\ UNCHANGED <<envVars, tool, setup, gitClean, envBefore, pubVars, debVars>>
    /\ UNCHANGED <<args, current_version, version, tag, confirmed, pypi_success, deb_success, notes,
                   ghResult, assets, summary, interrupted,
                   attempted>>

\* Line 345.
PushTags ==
    /\ tool = "release" /\ pc = "PushingTags"
    /\ \E rc \in RetCodes : run_command("git push tags", rc, "Tagging", "BuildingPyPI")
    /\ UNCHANGED <<envVars, tool, setup, gitClean, envBefore, pubVars, debVars>>
    /\ UNCHANGED <<args, current_version, version, tag, confirmed, pypi_success, deb_success, notes,
                   ghResult, assets, summary, interrupted,
                   attempted>>

\* Step 5, first kind (lines 350-354) and build_pypi_packages up to the
\* subprocess (lines 161-185): publish.py is started with "1\n" on stdin.
BuildPyPI ==
    /\ tool = "release" /\ pc = "BuildingPyPI"
    /\ attempted' = IF args.no_pypi THEN attempted ELSE attempted \cup {"pypi"}
    /\ IF args.no_pypi
       THEN /\ pc' = "BuildingDeb"
            /\ UNCHANGED <<pypi_success, calls, pubPc, pubStdin>>
       ELSE IF args.dry_run
            THEN /\ pypi_success' = TRUE
                 /\ pc' = "BuildingDeb"
                 /\ UNCHANGED <<calls, pubPc, pubStdin>>
            ELSE \/ /\ pypi_success' = FALSE
                    /\ pc' = "BuildingDeb"
                    /\ UNCHANGED <<calls, pubPc, pubStdin>>
                 \/ /\ calls' = Append(calls, "publish.py")
                    /\ pubPc' = "start"
                    /\ pubStdin' = "pipe"
                    /\ pc' = "AwaitingPyPI"
                    /\ UNCHANGED pypi_success
    /\ UNCHANGED <<envVars, tool, setup, gitClean, envBefore, pubChoice, pubExit,
                   debVars>>
    /\ UNCHANGED <<args, run_rc, current_version, version, tag, confirmed, deb_success, notes, ghResult,
                   assets, summary, exitCode, abortedAt, interrupted>>

\* build_pypi_packages after the subprocess (lines 187-198).
build_pypi_result(returncode, distFiles) ==
    IF returncode # 0 THEN FALSE
    ELSE IF distFiles \cap WheelNames = {} THEN FALSE
    ELSE TRUE

\* A failed PyPI build ends the run.
PyPIFinished_ExitsOnFailure ==
    /\ tool = "release" /\ pc = "AwaitingPyPI"
    /\ pubPc = "exited"
    /\ pypi_success' = build_pypi_result(pubExit, dist)
    /\ IF pypi_success'
       THEN /\ pc' = "BuildingDeb"
            /\ UNCHANGED <<exitCode, abortedAt>>
       ELSE RelExit(1, "BuildingPyPI")
    /\ UNCHANGED <<envVars, runVars, pubVars, debVars>>
    /\ UNCHANGED <<args, run_rc, current_version, version, tag, confirmed, deb_success, notes, ghResult,
                   assets, summary, interrupted, attempted>>

\* Lines 352-354: the result of build_pypi_packages is recorded.
PyPIFinished ==
    /\ tool = "release" /\ pc = "AwaitingPyPI"
    /\ pubPc = "exited"
    /\ pypi_success' = build_pypi_result(pubExit, dist)
    /\ pc' = "BuildingDeb"
    /\ UNCHANGED <<envVars, runVars, pubVars, debVars>>
    /\ UNCHANGED <<args, run_rc, current_version, version, tag, confirmed, deb_success, notes, ghResult,
                   assets, summary, exitCode, abortedAt, interrupted,
                   attempted>>

\* Step 5, second kind (lines 356-357) and build_debian_package up to the
\* subprocess (lines 201-220): deb_publish.py is started with "3\n" on stdin.
BuildDeb ==
    /\ tool = "release" /\ pc = "BuildingDeb"
    /\ attempted' = IF args.no_deb THEN attempted ELSE attempted \cup {"deb"}
    /\ IF args.no_deb
       THEN /\ pc' = "CollectingNotes"
            /\ UNCHANGED <<deb_success, calls, debPc, debStdin>>
       ELSE IF args.dry_run
            THEN /\ deb_success' = TRUE
                 /\ pc' = "CollectingNotes"
                 /\ UNCHANGED <<calls, debPc, debStdin>>
            ELSE \/ /\ deb_success' = FALSE
                    /\ pc' = "CollectingNotes"
                    /\ UNCHANGED <<calls, debPc, debStdin>>
                 \/ /\ calls' = Append(calls, "deb_publish.py")
                    /\ debPc' = "start"
                    /\ debStdin' = "pipe"
                    /\ pc' = "AwaitingDeb"
                    /\ UNCHANGED deb_success
    /\ UNCHANGED <<envVars, tool, setup, gitClean, envBefore, pubVars>>
    /\ UNCHANGED <<debChoice, debExit, debEnd, unmet, debVersion, read_version, tmpDir, buildParent,
                   before, copied, proc, deb, builderRc, skeletonDirs, dh, compat, compatFile>>
    /\ UNCHANGED <<args, run_rc, current_version, version, tag, confirmed, pypi_success, notes, ghResult,
                   assets, summary, exitCode, abortedAt, interrupted>>

\* build_debian_package after the subprocess (lines 222-233).
build_debian_result(returncode, debFiles) ==
    IF returncode # 0 THEN FALSE
    ELSE IF debFiles \cap DebNames = {} THEN FALSE
    ELSE TRUE

DebFinished ==
    /\ tool = "release" /\ pc = "AwaitingDeb"
    /\ debPc = "exited"
    /\ deb_success' = build_debian_result(debExit, distDeb)
    /\ pc' = "CollectingNotes"
    /\ UNCHANGED <<envVars, runVars, pubVars, debVars>>
    /\ UNCHANGED <<args, run_rc, current_version, version, tag, confirmed, pypi_success, notes, ghResult,
                   assets, summary, exitCode, abortedAt, interrupted,
                   attempted>>

\* get_release_notes (lines 127-158): the default text unless the operator
\* declines it and types something.
get_release_notes(raw, custom) ==
    IF Lower(Strip(raw)) \in {<<>>, <<"y">>, <<"y", "e", "s">>} THEN "default"
    ELSE IF custom = "" THEN "default"
    ELSE "custom"

\* Step 6 (lines 359-363); Ctrl-C at the prompt ends in __main__ (395-397).
CollectNotes ==
    /\ tool = "release" /\ pc = "CollectingNotes"
    /\ IF ~args.no_github /\ ~args.dry_run
       THEN \/ /\ \E raw \in RawAnswers, custom \in {"", "text"} :
                     notes' = get_release_notes(raw, custom)
               /\ pc' = "PublishingRelease"
               /\ UNCHANGED <<exitCode, abortedAt, interrupted>>
            \/ /\ interrupted' = TRUE
               /\ RelExit(1, "CollectingNotes")
               /\ UNCHANGED notes
       ELSE /\ notes' = "plain"
            /\ pc' = "PublishingRelease"
            /\ UNCHANGED <<exitCode, abortedAt, interrupted>>
    /\ UNCHANGED <<envVars, runVars, pubVars, debVars>>
    /\ UNCHANGED <<args, run_rc, current_version, version, tag, confirmed, pypi_success, deb_success,
                   ghResult, assets, summary, attempted>>

\* The assets of create_github_release (lines 251-261).
ReleaseAssets == (dist \cap WheelNames) \cup (distDeb \cap DebNames)

\* What create_github_release does with the return code of gh (lines 276-285,
\* run_command with check=False).
gh_result(rc) == IF rc # 0 THEN "failed" ELSE "created"

\* Step 7 (lines 365-367) and create_github_release (lines 236-285).
PublishRelease ==
    /\ tool = "release" /\ pc = "PublishingRelease"
    /\ IF args.no_github
       THEN UNCHANGED <<ghResult, assets, calls>>
       ELSE \/ /\ ghResult' = "absent"
               /\ UNCHANGED <<assets, calls>>
            \/ IF args.dry_run
               THEN /\ ghResult' = "dryrun"
                    /\ UNCHANGED <<assets, calls>>
               ELSE /\ assets' = ReleaseAssets
                    /\ calls' = Append(calls, "gh release create")
                    /\ \E rc \in RetCodes : ghResult' = gh_result(rc)
    /\ pc' = "Summarizing"
    /\ UNCHANGED <<envVars, tool, setup, gitClean, envBefore, pubVars, debVars>>
    /\ UNCHANGED <<args, run_rc, current_version, version, tag, confirmed, pypi_success, deb_success, notes,
                   summary, exitCode, abortedAt, interrupted,
                   attempted>>

\* The lines of the summary (lines 369-389).
SummaryLines ==
    (IF pypi_success THEN {"PyPI packages built"} ELSE {})
    \cup (IF deb_success THEN {"Debian package built"} ELSE {})
    \cup (IF ~args.no_pypi /\ pypi_success /\ ~args.dry_run
          THEN {"Upload to PyPI"} ELSE {})
    \cup {"Check GitHub release", "Test installation"}
    \cup (IF ~args.dry_run THEN {"Release published"} ELSE {})

\* Summary, with a failing exit code when the remote release was not created.
Summarize_FailOnGh ==
    /\ tool = "release" /\ pc = "Summarizing"
    /\ summary' = SummaryLines
    /\ pc' = "Done"
    /\ exitCode' = IF ghResult \in {"absent", "failed"} THEN 1 ELSE 0
    /\ UNCHANGED <<envVars, runVars, pubVars, debVars>>
    /\ UNCHANGED <<args, run_rc, current_version, version, tag, confirmed, pypi_success, deb_success, notes,
                   ghResult, assets, abortedAt, interrupted,
                   attempted>>

\* Summary, then main returns: exit code 0.
Summarize ==
    /\ tool = "release" /\ pc = "Summarizing"
    /\ summary' = SummaryLines
    /\ pc' = "Done"
    /\ exitCode' = 0
    /\ UNCHANGED <<envVars, runVars, pubVars, debVars>>
    /\ UNCHANGED <<args, run_rc, current_version, version, tag, confirmed, pypi_success, deb_success, notes,
                   ghResult, assets, abortedAt, interrupted,
                   attempted>>

(***************************************************************************)
(* publish.py                                                              *)
(***************************************************************************)

\* What the operator types at the menu of publish.py.
PubChoices == {"0", "1", "2", "3", "4", "5", "9"}

\* sys.exit(code), or the end of main (code 0).
PubExit(code) ==
    /\ pubPc' = "exited"
    /\ pubExit' = code

\* The step of main after build_package (lines 145-166).
PubAfterBuild(choice) ==
    IF choice \in {"2", "5"} THEN "upload_test"
    ELSE IF choice = "3" THEN "upload_pypi"
    ELSE "done"

\* The shell starts publish.py.
StartPublish ==
    /\ tool = "none"
    /\ tool' = "publish"
    /\ pubPc' = "start"
    /\ pubStdin' = "tty"
    /\ UNCHANGED <<envVars, setup, gitClean, envBefore, calls, relVars, pubChoice,
                   pubExit, debVars>>

\* The menu (lines 122-138, 157-162).  release.py feeds "1\n" on stdin; at a
\* terminal the operator types a choice or presses Ctrl-C (lines 172-174).
PubMenu ==
    /\ pubPc = "start"
    /\ \/ \E choice \in IF pubStdin = "pipe" THEN {"1"} ELSE PubChoices :
             /\ pubChoice' = choice
             /\ IF choice = "0" THEN PubExit(0)
                ELSE IF choice \in {"1", "2", "3", "5"}
                     THEN /\ pubPc' = "check_requirements"
                          /\ UNCHANGED pubExit
                ELSE IF choice = "4" THEN PubExit(0)
                ELSE PubExit(1)
       \/ /\ pubStdin = "tty"
          /\ PubExit(0)
          /\ UNCHANGED pubChoice
    /\ UNCHANGED <<envVars, runVars, relVars, pubStdin, debVars>>

\* check_requirements (lines 23-52).  With stdin exhausted input() raises
\* EOFError, which __main__ turns into exit 1 (lines 175-177).
PubCheckRequirements ==
    /\ pubPc = "check_requirements"
    /\ \/ /\ pubPc' = "clean_build"
          /\ UNCHANGED <<pubExit, calls>>
       \/ /\ pubStdin = "pipe"
          /\ PubExit(1)
          /\ UNCHANGED calls
       \/ /\ pubStdin = "tty"
          /\ \E raw \in RawAnswers :
                IF PubIsYes(raw)
                THEN \E rc \in RetCodes :
                        /\ calls' = Append(calls, "pip install")
                        /\ IF rc # 0
                           THEN PubExit(1)
                           ELSE /\ pubPc' = "clean_build"
                                /\ UNCHANGED pubExit
                ELSE /\ PubExit(1)
                     /\ UNCHANGED calls
       \/ /\ pubStdin = "tty"
          /\ PubExit(0)
          /\ UNCHANGED calls
    /\ UNCHANGED <<envVars, tool, setup, gitClean, envBefore, relVars, pubChoice,
                   pubStdin, debVars>>

\* clean_build (lines 55-65): rm -rf dist build kport.egg-info.
clean_build ==
    /\ dist' = {}
    /\ distDeb' = {}

PubCleanBuild ==
    /\ pubPc = "clean_build"
    /\ clean_build
    /\ pubPc' = "build_package"
    /\ UNCHANGED <<tags, runVars, relVars, pubChoice, pubStdin, pubExit, debVars>>

\* build_package (lines 68-70): `python -m build` writes into dist/; when it
\* fails it may have written the source archive already.
PubBuildPackage ==
    /\ pubPc = "build_package"
    /\ calls' = Append(calls, "python -m build")
    /\ \E rc \in RetCodes :
          IF rc # 0
          THEN /\ \E out \in {{}, SdistNames} : dist' = dist \cup out
               /\ PubExit(1)
          ELSE /\ \E out \in BuildOutputs : dist' = dist \cup out
               /\ pubPc' = PubAfterBuild(pubChoice)
               /\ UNCHANGED pubExit
    /\ UNCHANGED <<tags, distDeb, tool, setup, gitClean, envBefore, relVars,
                   pubChoice, pubStdin, debVars>>

\* upload_to_test_pypi (lines 73-86).
PubUploadTest ==
    /\ pubPc = "upload_test"
    /\ LET next == IF pubChoice = "5" THEN "confirm_production" ELSE "done"
       IN  \/ \E raw \in RawAnswers :
                 IF PubIsYes(raw)
                 THEN \E rc \in RetCodes :
                         /\ calls' = Append(calls, "twine upload testpypi")
                         /\ IF rc # 0
                            THEN PubExit(1)
                            ELSE /\ pubPc' = next
                                 /\ UNCHANGED pubExit
                 ELSE /\ pubPc' = next
                      /\ UNCHANGED <<pubExit, calls>>
           \/ /\ PubExit(0)
              /\ UNCHANGED calls
    /\ UNCHANGED <<envVars, tool, setup, gitClean, envBefore, relVars, pubChoice,
                   pubStdin, debVars>>

\* Choice 5 asks before the production upload (lines 149-154).
PubConfirmProduction ==
    /\ pubPc = "confirm_production"
    /\ \/ \E raw \in RawAnswers :
             IF PubIsYes(raw)
             THEN /\ pubPc' = "upload_pypi"
                  /\ UNCHANGED pubExit
             ELSE PubExit(0)
       \/ PubExit(0)
    /\ UNCHANGED <<envVars, runVars, relVars, pubChoice, pubStdin, debVars>>

\* upload_to_pypi (lines 89-103).
PubUploadPyPI ==
    /\ pubPc = "upload_pypi"
    /\ \/ \E raw \in RawAnswers :
             IF PubIsYes(raw)
             THEN \E rc \in RetCodes :
                     /\ calls' = Append(calls, "twine upload")
                     /\ IF rc # 0
                        THEN PubExit(1)
                        ELSE /\ pubPc' = "done"
                             /\ UNCHANGED pubExit
             ELSE /\ pubPc' = "done"
                  /\ UNCHANGED <<pubExit, calls>>
       \/ /\ PubExit(0)
          /\ UNCHANGED calls
    /\ UNCHANGED <<envVars, tool, setup, gitClean, envBefore, relVars, pubChoice,
                   pubStdin, debVars>>

\* "All done!" (lines 164-166).
PubDone ==
    /\ pubPc = "done"
    /\ PubExit(0)
    /\ UNCHANGED <<envVars, runVars, relVars, pubChoice, pubStdin, debVars>>

(***************************************************************************)
(* deb_publish.py                                                          *)
(***************************************************************************)

\* What the operator types at the menu of deb_publish.py.
DebChoices == {"0", "1", "2", "3", "4", "9"}

\* "error: Unmet build dependencies: debhelper-compat (= 13), foo"
UnmetLine ==
    <<"e", "r", "r", "o", "r", ":", " ", "U", "n", "m", "e", "t", " ",
      "b", "u", "i", "l", "d", " ", "d", "e", "p", "e", "n", "d", "e", "n",
      "c", "i", "e", "s", ":", " ">>
    \o <<"d", "e", "b", "h", "e", "l", "p", "e", "r", "-", "c", "o", "m", "p", "a", "t",
         " ", "(", "=", " ", "1", "3", ")", ",", " ", "f", "o", "o">>

\* "error: cannot read debian/control"
OtherLine ==
    <<"e", "r", "r", "o", "r", ":", " ", "c", "a", "n", "n", "o", "t", " ",
      "r", "e", "a", "d">>

\* What can become of dpkg-checkbuilddeps in a run of deb_publish.py: not on
\* PATH; exit 0 (silent, or with a warning that holds the marker); exit 1
\* with the unmet dependencies on stderr, or with another diagnostic.
DepRuns ==
    {[available |-> FALSE, returncode |-> 0, stdout |-> <<>>, stderr |-> <<>>],
     [available |-> TRUE, returncode |-> 0, stdout |-> <<>>, stderr |-> <<>>],
     [available |-> TRUE, returncode |-> 0, stdout |-> <<>>, stderr |-> UnmetLine],
     [available |-> TRUE, returncode |-> 1, stdout |-> <<>>, stderr |-> UnmetLine],
     [available |-> TRUE, returncode |-> 1, stdout |-> <<>>, stderr |-> OtherLine]}

\* The spelling of a file name.
FileName(f) ==
    CASE f = "kport.deb" -> <<"k", "p", "o", "r", "t", ".", "d", "e", "b">>
      [] f = "kport-dbgsym.deb" ->
            <<"k", "p", "o", "r", "t", "-", "d", "b", "g", "s", "y", "m", ".", "d", "e", "b">>
      [] f = "kport-doc.deb" ->
            <<"k", "p", "o", "r", "t", "-", "d", "o", "c", ".", "d", "e", "b">>
      [] f = "a-dbgsym.deb" ->
            <<"a", "-", "d", "b", "g", "s", "y", "m", ".", "d", "e", "b">>

\* The characters of file names in the order of their code points.
CharOrder ==
    <<"+", "-", ".", "0", "1", "2", "3", "4", "5", "6", "7", "8", "9">>
    \o Uppers \o <<"_">> \o Lowers

CodeRank(c) == CHOOSE i \in DOMAIN CharOrder : CharOrder[i] = c

\* a < b for Python strings.
RECURSIVE StrLess(_, _)
StrLess(a, b) ==
    IF b = <<>> THEN FALSE
    ELSE IF a = <<>> THEN TRUE
    ELSE IF Head(a) # Head(b) THEN CodeRank(Head(a)) < CodeRank(Head(b))
    ELSE StrLess(Tail(a), Tail(b))

\* `sub in s` for Python strings.
Contains(sub, s) ==
    \E i \in 1..(Len(s) - Len(sub) + 1) : SubSeq(s, i, i + Len(sub) - 1) = sub

Dbgsym == <<"d", "b", "g", "s", "y", "m">>

\* The names compared without the debug-symbol test.
KeyLess_NameOnly(f, g) == StrLess(FileName(f), FileName(g))

\* The sort key of line 317, ("dbgsym" in p.name, p.name), compared.
KeyLess(f, g) ==
    LET fd == Contains(Dbgsym, FileName(f))
        gd == Contains(Dbgsym, FileName(g))
    IN  IF fd # gd THEN ~fd
        ELSE StrLess(FileName(f), FileName(g))

\* Lines 313-318: None for no copied file, else the first in sorted order.
canonical_deb(files) ==
    IF files = {} THEN None
    ELSE Some(CHOOSE f \in files : \A g \in files \ {f} : KeyLess(f, g))

DefaultVersion == <<"0", ".", "0", ".", "0">>

Debhelper == <<"d", "e", "b", "h", "e", "l", "p", "e", "r">>

DecimalDigits == <<"0", "1", "2", "3", "4", "5", "6", "7", "8", "9">>

\* The first index >= i of t that does not hold a digit (\d+ is greedy).
RECURSIVE SkipDigits(_, _)
SkipDigits(t, i) ==
    IF i <= Len(t) /\ t[i] \in Digits THEN SkipDigits(t, i + 1) ELSE i

\* debhelper\s+version\s+(\d+) with re.IGNORECASE anchored at index i: group 1,
\* or None.
MatchDebhelperAt(t, i) ==
    LET s1 == i + Len(Debhelper)
        v == SkipSpaces(t, s1)
        s2 == v + Len(Kw)
        d == SkipSpaces(t, s2)
        e == SkipDigits(t, d)
    IN  IF /\ s1 - 1 <= Len(t)
           /\ LowerText(SubSeq(t, i, s1 - 1)) = Debhelper
           /\ v > s1
           /\ s2 - 1 <= Len(t)
           /\ LowerText(SubSeq(t, v, s2 - 1)) = Kw
           /\ d > s2
           /\ e > d
        THEN Some(SubSeq(t, d, e - 1))
        ELSE None

\* int(text) of a run of decimal digits.
RECURSIVE int(_)
int(text) ==
    IF text = <<>> THEN 0
    ELSE 10 * int(SubSeq(text, 1, Len(text) - 1))
         + (CHOOSE k \in 0..9 : DecimalDigits[k + 1] = text[Len(text)])

\* str(n) of a natural number.
RECURSIVE str(_)
str(n) ==
    IF n < 10 THEN <<DecimalDigits[n + 1]>>
    ELSE str(n \div 10) \o <<DecimalDigits[(n % 10) + 1]>>

\* The level taken from the helper's report without the floor.
debhelper_compat_level_NoFloor(helper) ==
    LET found == {i \in 1..Len(helper.out) : MatchDebhelperAt(helper.out, i).ok}
    IN  IF ~helper.available \/ helper.returncode # 0 \/ found = {} THEN 12
        ELSE int(MatchDebhelperAt(helper.out, Min(found)).val)

\* _debhelper_compat_level (lines 89-103); helper is what became of
\* `dh --version`: check_output raises when it exits with a non-zero code.
debhelper_compat_level(helper) ==
    IF ~helper.available THEN 12
    ELSE IF helper.returncode # 0 THEN 12
    ELSE LET found == {i \in 1..Len(helper.out) : MatchDebhelperAt(helper.out, i).ok}
             major == int(MatchDebhelperAt(helper.out, Min(found)).val)
         IN  IF found = {} THEN 12
             ELSE IF major > 12 THEN major ELSE 12

\* generate_debian_skeleton (lines 127, 192): the level and debian/compat.
write_compat(helper) ==
    /\ dh' = helper
    /\ compat' = debhelper_compat_level(helper)
    /\ compatFile' = str(compat') \o <<"\n">>

\* The temporary tree is removed, debian/compat with it.
remove_compat ==
    /\ dh' = NoHelper
    /\ compat' = 0
    /\ compatFile' = <<>>

DhVersion(n) ==
    Debhelper \o <<" ">> \o Kw \o <<" ">> \o n \o <<".", "1", "1", "\n">>

\* What `dh --version` can do on the machine of a run: not installed, or a
\* current helper.
DhRuns ==
    {[available |-> FALSE, returncode |-> Running, out |-> <<>>],
     [available |-> TRUE, returncode |-> 0, out |-> DhVersion(<<"1", "3">>)]}

\* sys.exit(code), the return of main (code 0), or an uncaught exception
\* (code 1); the `with` blocks remove the temporary directory on the way out.
DebExitWith(code, why) ==
    /\ debPc' = "exited"
    /\ debExit' = code
    /\ debEnd' = why
    /\ tmpDir' = "none"
    /\ buildParent' = {}
    /\ skeletonDirs' = skeletonDirs \ {"tmp"}
    /\ remove_compat

\* run without the exit on a non-zero return code.
run_Unchecked(cmd, rc, out, next) ==
    /\ calls' = Append(calls, cmd)
    /\ debPc' = next
    /\ buildParent' = buildParent \cup out
    /\ UNCHANGED <<debExit, debEnd, tmpDir, skeletonDirs, dh, compat, compatFile>>

\* run(cmd, description) (lines 38-48): a non-zero rc exits with it; `out` is
\* what the command has written into the temporary directory when it exits 0.
run(cmd, rc, out, next) ==
    /\ calls' = Append(calls, cmd)
    /\ IF rc # 0
       THEN DebExitWith(ExitStatus(rc), "subprocess_failed")
       ELSE /\ debPc' = next
            /\ buildParent' = buildParent \cup out
            /\ UNCHANGED <<debExit, debEnd, tmpDir, skeletonDirs, dh, compat, compatFile>>

\* debian/ written into the repository itself.
write_skeleton_InRepo(work_dir) == skeletonDirs' = skeletonDirs \cup {"repo"}

\* generate_debian_skeleton (lines 119-120, 184-194): debian/ is written under
\* the work_dir the caller passes.
write_skeleton(work_dir) == skeletonDirs' = skeletonDirs \cup {work_dir}

\* generate_debian_skeleton (lines 125-126, 195): the Debian version string.
generate_debian_skeleton(setupText) ==
    PyOr(read_project_version(setupText), Some(DefaultVersion)).val \o <<"-", "1">>

\* The shell starts deb_publish.py.
StartDeb ==
    /\ tool = "none"
    /\ tool' = "deb"
    /\ \E s \in SetupTexts : setup' = s
    /\ debPc' = "start"
    /\ debStdin' = "tty"
    /\ UNCHANGED <<envVars, gitClean, envBefore, calls, relVars, pubVars>>
    /\ UNCHANGED <<debChoice, debExit, debEnd, unmet, debVersion, read_version, tmpDir, buildParent,
                   before, copied, proc, deb, builderRc, skeletonDirs, dh, compat, compatFile>>

\* check_layout (lines 73-78) and the menu (lines 336-353, 412-413).
\* release.py feeds "3\n" on stdin; at a terminal the operator types a choice
\* or presses Ctrl-C (lines 419-421).
DebMenu ==
    /\ debPc = "start"
    /\ \/ \E layoutOk \in {setup.ok} \cup {FALSE} :
             IF ~layoutOk
             THEN /\ DebExitWith(1, "missing_files")
                  /\ UNCHANGED debChoice
             ELSE \E choice \in IF debStdin = "pipe" THEN {"3"} ELSE DebChoices :
                     /\ debChoice' = choice
                     /\ IF choice = "0" THEN DebExitWith(0, "chose_exit")
                        ELSE IF choice \in {"1", "3", "4"}
                             THEN /\ debPc' = "check_tools"
                                  /\ UNCHANGED <<debExit, debEnd, tmpDir, buildParent, skeletonDirs, dh, compat, compatFile>>
                        ELSE IF choice = "2"
                             THEN /\ debPc' = "apt_update"
                                  /\ UNCHANGED <<debExit, debEnd, tmpDir, buildParent, skeletonDirs, dh, compat, compatFile>>
                        ELSE DebExitWith(1, "invalid_choice")
       \/ /\ debStdin = "tty"
          /\ setup.ok
          /\ DebExitWith(0, "interrupted")
          /\ UNCHANGED debChoice
    /\ UNCHANGED <<envVars, runVars, relVars, pubVars>>
    /\ UNCHANGED <<debStdin, unmet, debVersion, read_version, before, copied, proc, deb, builderRc>>

\* check_build_tools (lines 81-86) and lines 356-361, 379-383.
DebCheckTools ==
    /\ debPc = "check_tools"
    /\ \E missing \in BOOLEAN :
          IF missing
          THEN DebExitWith(1, "missing_tools")
          ELSE /\ debPc' = "preflight"
               /\ UNCHANGED <<debExit, debEnd, tmpDir, buildParent, skeletonDirs, dh, compat, compatFile>>
    /\ UNCHANGED <<envVars, runVars, relVars, pubVars>>
    /\ UNCHANGED <<debChoice, debStdin, unmet, debVersion, read_version, before, copied, proc, deb, builderRc>>

\* The preflight of choices 1, 3 and 4 (lines 363-366, 385-389): a temporary
\* directory, a copy of the repository in it, the packaging skeleton in the
\* copy.
DebPreflight ==
    /\ debPc = "preflight"
    /\ tmpDir' = "check"
    /\ write_skeleton("tmp")
    /\ \E h \in DhRuns : write_compat(h)
    /\ read_version' = read_project_version(setup)
    /\ debVersion' = generate_debian_skeleton(setup)
    /\ debPc' = "check_deps"
    /\ UNCHANGED <<envVars, runVars, relVars, pubVars>>
    /\ UNCHANGED <<debChoice, debStdin, debExit, debEnd, unmet, buildParent, before,
                   copied, proc, deb, builderRc>>

\* check_debian_build_deps on the copy and the end of the `with` block (lines
\* 367-373, 390-391), which removes the temporary directory; Ctrl-C at a
\* terminal ends the tool with exit 0 (lines 419-421).
DebCheckDeps ==
    /\ debPc = "check_deps"
    /\ \/ \E p \in DepRuns :
             /\ proc' = p
             /\ unmet' = check_debian_build_deps(p)
             /\ IF debChoice = "1" THEN DebExitWith(0, "checked")
                ELSE /\ debPc' = IF unmet' # <<>> THEN "prompt_install" ELSE "build"
                     /\ tmpDir' = "none"
                     /\ skeletonDirs' = skeletonDirs \ {"tmp"}
                     /\ remove_compat
                     /\ UNCHANGED <<debExit, debEnd, buildParent>>
       \/ /\ debStdin = "tty"
          /\ DebExitWith(0, "interrupted")
          /\ UNCHANGED <<proc, unmet>>
    /\ UNCHANGED <<envVars, runVars, relVars, pubVars>>
    /\ UNCHANGED <<debChoice, debStdin, debVersion, read_version, before, copied, deb, builderRc>>

\* The prompt going on to the build when the operator declines.
DebPromptInstall_BuildsAnyway ==
    /\ debPc = "prompt_install"
    /\ debStdin = "tty"
    /\ \E raw \in RawAnswers :
          debPc' = IF IsYes(raw) THEN "apt_update" ELSE "build"
    /\ UNCHANGED <<debExit, debEnd, tmpDir, buildParent, skeletonDirs, dh, compat, compatFile>>
    /\ UNCHANGED <<envVars, runVars, relVars, pubVars>>
    /\ UNCHANGED <<debChoice, debStdin, unmet, debVersion, read_version, before, copied, proc, deb, builderRc>>

\* Lines 392-399.  With stdin exhausted input() raises EOFError, which nothing
\* catches: the interpreter exits 1.
DebPromptInstall ==
    /\ debPc = "prompt_install"
    /\ \/ /\ debStdin = "pipe"
          /\ DebExitWith(1, "eof")
       \/ /\ debStdin = "tty"
          /\ \E raw \in RawAnswers :
                IF IsYes(raw)
                THEN /\ debPc' = "apt_update"
                     /\ UNCHANGED <<debExit, debEnd, tmpDir, buildParent, skeletonDirs, dh, compat, compatFile>>
                ELSE DebExitWith(1, "declined_install")
       \/ /\ debStdin = "tty"
          /\ DebExitWith(0, "interrupted")
    /\ UNCHANGED <<envVars, runVars, relVars, pubVars>>
    /\ UNCHANGED <<debChoice, debStdin, unmet, debVersion, read_version, before, copied, proc, deb, builderRc>>

\* sudo apt-get update (lines 229, 252).
DebAptUpdate ==
    /\ debPc = "apt_update"
    /\ \E rc \in RetCodes : run("apt-get update", rc, {}, "apt_install")
    /\ UNCHANGED <<envVars, tool, setup, gitClean, envBefore, relVars, pubVars>>
    /\ UNCHANGED <<debChoice, debStdin, unmet, debVersion, read_version, before, copied, proc, deb, builderRc>>

\* sudo apt-get install (lines 230-245, 253); choice 2 returns after it.
DebAptInstall ==
    /\ debPc = "apt_install"
    /\ \E rc \in RetCodes :
          IF rc = 0 /\ debChoice = "2"
          THEN /\ calls' = Append(calls, "apt-get install")
               /\ DebExitWith(0, "installed")
          ELSE run("apt-get install", rc, {}, "build")
    /\ UNCHANGED <<envVars, tool, setup, gitClean, envBefore, relVars, pubVars>>
    /\ UNCHANGED <<debChoice, debStdin, unmet, debVersion, read_version, before, copied, proc, deb, builderRc>>

\* build_deb up to the builder, with the whole of dist/ removed first.
DebBuildSetup_CleansDist ==
    /\ debPc = "build"
    /\ dist' = {}
    /\ tmpDir' = "build"
    /\ buildParent' = {}
    /\ write_skeleton("tmp")
    /\ \E h \in DhRuns : write_compat(h)
    /\ read_version' = read_project_version(setup)
    /\ debVersion' = generate_debian_skeleton(setup)
    /\ before' = buildParent'
    /\ debPc' = "run_builder"
    /\ UNCHANGED <<tags, distDeb, runVars, relVars, pubVars>>
    /\ UNCHANGED <<debChoice, debStdin, debExit, debEnd, unmet, copied, proc, deb,
                   builderRc>>

\* build_deb up to the builder (lines 276-308): dist/deb exists, a fresh
\* temporary directory holds the copy and the skeleton, and the .deb names of
\* its top level are remembered.
DebBuildSetup ==
    /\ debPc = "build"
    /\ tmpDir' = "build"
    /\ buildParent' = {}
    /\ write_skeleton("tmp")
    /\ \E h \in DhRuns : write_compat(h)
    /\ read_version' = read_project_version(setup)
    /\ debVersion' = generate_debian_skeleton(setup)
    /\ before' = buildParent'
    /\ debPc' = "run_builder"
    /\ UNCHANGED <<envVars, runVars, relVars, pubVars>>
    /\ UNCHANGED <<debChoice, debStdin, debExit, debEnd, unmet, copied, proc, deb,
                   builderRc>>

\* The builder's output put into dist/deb/ as it runs.
DebRunBuilder_WritesToDist ==
    /\ debPc = "run_builder"
    /\ \E rc \in RetCodes, out \in DebOutputs :
          /\ builderRc' = rc
          /\ distDeb' = distDeb \cup out
          /\ run("dpkg-buildpackage", rc, out, "collect")
    /\ UNCHANGED <<tags, dist, tool, setup, gitClean, envBefore, relVars, pubVars>>
    /\ UNCHANGED <<debChoice, debStdin, unmet, debVersion, read_version, before, copied, proc, deb>>

\* dpkg-buildpackage -us -uc (line 310); Ctrl-C at a terminal ends the tool
\* with exit 0 (lines 419-421).
DebRunBuilder ==
    /\ debPc = "run_builder"
    /\ \/ \E rc \in RetCodes, out \in DebOutputs :
             /\ builderRc' = rc
             /\ run("dpkg-buildpackage", rc, out, "collect")
       \/ /\ debStdin = "tty"
          /\ calls' = Append(calls, "dpkg-buildpackage")
          /\ DebExitWith(0, "interrupted")
          /\ UNCHANGED builderRc
    /\ UNCHANGED <<envVars, tool, setup, gitClean, envBefore, relVars, pubVars>>
    /\ UNCHANGED <<debChoice, debStdin, unmet, debVersion, read_version, before, copied, proc, deb>>

\* Every name found after the build taken for new.
NewDebs_All(after, snapshot) == after

\* _copy_new_debs (lines 256-267): the names new since `before`.
NewDebs(after, snapshot) == {f \in after : f \notin snapshot}

\* Lines 312-318 and 401-410: copy the new files to dist/deb, pick the one to
\* return, leave the `with` block and return from main.
DebCollect ==
    /\ debPc = "collect"
    /\ copied' = NewDebs(buildParent, before)
    /\ distDeb' = distDeb \cup copied'
    /\ deb' = canonical_deb(copied')
    /\ debPc' = "exited"
    /\ debExit' = 0
    /\ debEnd' = IF ~deb'.ok THEN "no_artifact" ELSE "built"
    /\ tmpDir' = "none"
    /\ buildParent' = {}
    /\ skeletonDirs' = skeletonDirs \ {"tmp"}
    /\ remove_compat
    /\ UNCHANGED <<tags, dist, runVars, relVars, pubVars>>
    /\ UNCHANGED <<debChoice, debStdin, unmet, debVersion, read_version, before, proc, builderRc>>

(***************************************************************************)
(* The shell                                                               *)
(***************************************************************************)

\* The tool started from the shell has ended.
Ended ==
    \/ tool = "release" /\ pc \in {"Done", "Aborted"}
    \/ tool = "publish" /\ pubPc = "exited"
    \/ tool = "deb" /\ debPc = "exited"

\* The process is gone; the repository and dist/ stay as it left them.
Finish ==
    /\ Ended
    /\ tool' = "none" /\ setup' = None /\ gitClean' = TRUE
    /\ envBefore' = [tags |-> {}, dist |-> {}, distDeb |-> {}] /\ calls' = <<>>
    /\ pc' = "Idle" /\ args' = NoArgs /\ current_version' = None /\ version' = <<>> /\ tag' = <<>>
    /\ confirmed' = "unasked" /\ pypi_success' = TRUE /\ deb_success' = TRUE
    /\ notes' = "none" /\ ghResult' = "none" /\ assets' = {} /\ summary' = {}
    /\ exitCode' = Running /\ abortedAt' = "none" /\ interrupted' = FALSE /\ attempted' = {}
    /\ run_rc' = Running
    /\ pubPc' = "off" /\ pubChoice' = "" /\ pubStdin' = "tty" /\ pubExit' = Running
    /\ debPc' = "off" /\ debChoice' = "" /\ debStdin' = "tty" /\ debExit' = Running /\ debEnd' = "running"
    /\ unmet' = <<>> /\ debVersion' = <<>> /\ read_version' = None /\ tmpDir' = "none"
    /\ buildParent' = {} /\ before' = {} /\ copied' = {}
    /\ proc' = NoProc /\ deb' = None /\ builderRc' = Running /\ skeletonDirs' = {}
    /\ dh' = NoHelper /\ compat' = 0 /\ compatFile' = <<>>
    /\ UNCHANGED envVars

Next ==
    \/ StartRelease
    \/ ResolveVersion
    \/ ValidateState
    \/ Confirm
    \/ CreateTag
    \/ PushCommits
    \/ PushTags
    \/ BuildPyPI
    \/ PyPIFinished
    \/ BuildDeb
    \/ DebFinished
    \/ CollectNotes
    \/ PublishRelease
    \/ Summarize
    \/ StartPublish
    \/ PubMenu
    \/ PubCheckRequirements
    \/ PubCleanBuild
    \/ PubBuildPackage
    \/ PubUploadTest
    \/ PubConfirmProduction
    \/ PubUploadPyPI
    \/ PubDone
    \/ StartDeb
    \/ DebMenu
    \/ DebCheckTools
    \/ DebPreflight
    \/ DebCheckDeps
    \/ DebPromptInstall
    \/ DebAptUpdate
    \/ DebAptInstall
    \/ DebBuildSetup
    \/ DebRunBuilder
    \/ DebCollect
    \/ Finish

Spec == Init /\ [][Next]_vars

(***************************************************************************)
(* The functions of deb_publish.py on their own                            *)
(***************************************************************************)

\* .deb names a build's parent directory can hold.
FnDebFiles == DebNames \cup {"kport-doc.deb", "a-dbgsym.deb"}

UpperChar(c) ==
    IF \E i \in DOMAIN Lowers : Lowers[i] = c
    THEN Uppers[CHOOSE i \in DOMAIN Lowers : Lowers[i] = c]
    ELSE c

\* The marker as dpkg-checkbuilddeps prints it, in capitals, or not there.
FnMarkers ==
    {<<"U">> \o Tail(Marker), [i \in DOMAIN Marker |-> UpperChar(Marker[i])], <<>>}

FnPrefixes == {<<>>, <<"e", "r", "r", "o", "r", ":", " ">>}

\* What follows the marker before the first token.
FnGaps == {<<>>, <<" ">>, <<"\n">>}

FnTokens ==
    {<<"f", "o", "o">>,
     <<"d", "e", "b", "h", "e", "l", "p", "e", "r", "-", "c", "o", "m", "p", "a", "t",
       " ", "(", "=", " ", "1", "3", ")">>,
     <<" ">>,
     <<"(", "x", ")">>,
     <<" ", "G", "+", "+", ":", "a", "n", "y", " ">>}

\* The comma-separated lists of at most two tokens.
FnDepLists ==
    {<<>>} \cup FnTokens \cup {a \o <<",">> \o b : a \in FnTokens, b \in FnTokens}

FnSuffixes == {<<>>, <<"\n", "n", "e", "x", "t">>}

\* Diagnostic texts of dpkg-checkbuilddeps.
FnTexts ==
    {p \o m \o g \o d \o x :
        p \in FnPrefixes, m \in FnMarkers, g \in FnGaps, d \in FnDepLists,
        x \in FnSuffixes}

\* What check_debian_build_deps can get from subprocess.run.
FnProcs ==
    [available : BOOLEAN, returncode : {0, 1}, stdout : {<<>>, <<"U">> \o Tail(Marker)},
     stderr : FnTexts]

\* The assignments a setup.py can open with: the keyword alone or as the tail of
\* another name, spaces or none around "=", either quote on either side, and
\* values with spaces around them, blank or empty.
FnNamePrefixes == {<<>>, <<"_">>, <<"x", ".">>, <<"#", " ">>}

FnEquals == {<<"=">>, <<" ", "=", " ">>, <<"\t", "=", "\n">>, <<" ">>}

FnValues == {<<"2">>, <<" ", "2", ".", "0", "\t">>, <<" ">>, <<>>, <<"2", "\n", "b">>}

FnAssignments ==
    {p \o Kw \o e \o <<q1>> \o v \o <<q2>> :
        p \in FnNamePrefixes, e \in FnEquals, v \in FnValues,
        q1 \in {"\"", "'"}, q2 \in {"\"", "'"}}

\* What follows the first assignment.
FnRests == {<<>>, <<"\n">> \o TextDq1, <<"\n">> \o TextSq2, <<",">> \o TextBlank}

\* The contents of setup.py (None: missing).
FnSetups ==
    {None, Some(<<>>), Some(TextNoVersion)}
    \cup {Some(a \o r) : a \in FnAssignments, r \in FnRests}

\* The reports of `dh --version`.
FnDhHeads ==
    {Debhelper \o <<" ">> \o Kw \o <<" ">>,
     <<"D", "e", "b", "h", "e", "l", "p", "e", "r", " ", "\t", "V", "E", "R", "S", "I", "O", "N", "\n">>,
     <<"x", " ">> \o Debhelper \o <<" ">> \o Kw \o <<" ">>,
     Debhelper \o Kw \o <<" ">>,
     Debhelper \o <<" ">> \o Kw,
     <<"d", "h", " ">> \o Kw \o <<" ">>,
     <<>>}

FnDhNumbers ==
    {<<>>, <<"0">>, <<"9">>, <<"1", "1">>, <<"1", "2">>, <<"1", "3">>, <<"0", "1", "4">>,
     <<"1", "0", "0">>, <<"v", "1", "3">>}

FnDhTails == {<<>>, <<".", "1", "1", ".", "4", "\n">>, <<"u", "b", "u", "n", "t", "u">>}

FnDhRuns ==
    {[available |-> a, returncode |-> IF a THEN rc ELSE Running, out |-> IF a THEN h \o n \o t ELSE <<>>] :
        a \in BOOLEAN, rc \in {0, 1}, h \in FnDhHeads, n \in FnDhNumbers, t \in FnDhTails}

\* A call of _copy_new_debs and the selection of build_deb on any two sets of
\* names, or a call of check_debian_build_deps on any result of the helper.
FnInit ==
    /\ tags = {} /\ dist = {} /\ distDeb = {}
    /\ tool = "none" /\ gitClean = TRUE /\ calls = <<>>
    /\ envBefore = [tags |-> {}, dist |-> {}, distDeb |-> {}]
    /\ RelInit /\ PubInit
    /\ debChoice = "" /\ debStdin = "tty" /\ debExit = Running /\ debEnd = "running"
    /\ unmet = <<>> /\ debVersion = <<>> /\ tmpDir = "none" /\ copied = {}
    /\ deb = None /\ builderRc = Running /\ skeletonDirs = {}
    /\ read_version = None /\ compat = 0 /\ compatFile = <<>>
    /\ \/ /\ debPc = "copy_new_debs"
          /\ buildParent \in SUBSET FnDebFiles
          /\ before \in SUBSET FnDebFiles
          /\ proc = NoProc /\ setup = None /\ dh = NoHelper
       \/ /\ debPc = "check_debian_build_deps"
          /\ buildParent = {} /\ before = {}
          /\ proc \in FnProcs /\ setup = None /\ dh = NoHelper
       \/ /\ debPc = "read_version"
          /\ buildParent = {} /\ before = {}
          /\ proc = NoProc /\ setup \in FnSetups /\ dh = NoHelper
       \/ /\ debPc = "debhelper_compat_level"
          /\ buildParent = {} /\ before = {}
          /\ proc = NoProc /\ setup = None /\ dh \in FnDhRuns

\* Lines 312-318 of build_deb.
ApplyCopyNewDebs ==
    /\ debPc = "copy_new_debs"
    /\ copied' = NewDebs(buildParent, before)
    /\ distDeb' = distDeb \cup copied'
    /\ deb' = canonical_deb(copied')
    /\ debPc' = "copied"
    /\ UNCHANGED <<tags, dist, runVars, relVars, pubVars>>
    /\ UNCHANGED <<debChoice, debStdin, debExit, debEnd, unmet, debVersion, read_version, tmpDir,
                   buildParent, before, proc, builderRc, skeletonDirs, dh, compat, compatFile>>

\* Lines 216-224.
ApplyCheckDeps ==
    /\ debPc = "check_debian_build_deps"
    /\ unmet' = check_debian_build_deps(proc)
    /\ debPc' = "checked"
    /\ UNCHANGED <<envVars, runVars, relVars, pubVars>>
    /\ UNCHANGED <<debChoice, debStdin, debExit, debEnd, debVersion, read_version, tmpDir,
                   buildParent, before, copied, proc, deb, builderRc, skeletonDirs, dh, compat, compatFile>>

\* Line 300 of release.py and line 125 of deb_publish.py on the same setup.py.
ApplyReadVersion ==
    /\ debPc = "read_version"
    /\ current_version' = read_version_from_setup(setup)
    /\ read_version' = read_project_version(setup)
    /\ debPc' = "versions_read"
    /\ UNCHANGED <<envVars, runVars, pubVars>>
    /\ UNCHANGED <<pc, args, run_rc, version, tag, confirmed, pypi_success, deb_success, notes,
                   ghResult, assets, summary, exitCode, abortedAt, interrupted, attempted>>
    /\ UNCHANGED <<debChoice, debStdin, debExit, debEnd, unmet, debVersion, tmpDir,
                   buildParent, before, copied, proc, deb, builderRc, skeletonDirs,
                   dh, compat, compatFile>>

\* Lines 127 and 192 of generate_debian_skeleton.
ApplyCompatLevel ==
    /\ debPc = "debhelper_compat_level"
    /\ write_compat(dh)
    /\ debPc' = "compat_written"
    /\ UNCHANGED <<envVars, runVars, relVars, pubVars>>
    /\ UNCHANGED <<debChoice, debStdin, debExit, debEnd, unmet, debVersion, read_version,
                   tmpDir, buildParent, before, copied, proc, deb, builderRc,
                   skeletonDirs>>

FnNext ==
    \/ ApplyCopyNewDebs
    \/ ApplyCheckDeps
    \/ ApplyReadVersion
    \/ ApplyCompatLevel

FnSpec == FnInit /\ [][FnNext]_vars

(***************************************************************************)
(* Properties                                                              *)
(***************************************************************************)

InRelease == tool = "release"

\* A step of release.py main after the version is resolved.
ReleaseStep ==
    \/ ValidateState
    \/ Confirm
    \/ CreateTag
    \/ PushCommits
    \/ PushTags
    \/ BuildPyPI
    \/ PyPIFinished
    \/ BuildDeb
    \/ DebFinished
    \/ CollectNotes
    \/ PublishRelease
    \/ Summarize

\* No tagging, push, build or remote-release step has been invoked in the run.
NothingInvoked ==
    /\ calls = <<>>
    /\ tags = envBefore.tags
    /\ dist = envBefore.dist
    /\ distDeb = envBefore.distDeb
    /\ pubPc = "off"
    /\ debPc = "off"
    /\ assets = {}

\* C1: a release run that comes to ValidatingState with a repository that is
\* not clean, or with its tag already there, ends Aborted at ValidatingState
\* with a non-zero exit code, whatever the flags, and has invoked no tagging,
\* push, build or remote-release step.
C1_ValidationGate ==
    ( /\ InRelease
      /\ pc \notin {"ResolvingVersion", "ValidatingState"}
      /\ abortedAt # "ResolvingVersion"
      /\ (~gitClean \/ tag \in envBefore.tags) )
    => /\ pc = "Aborted"
       /\ abortedAt = "ValidatingState"
       /\ exitCode \in 1..255
       /\ NothingInvoked
       /\ ghResult = "none"

\* A dry run for a version whose tag exists, in a clean repository, stopped
\* by the gate.
C1_Witness ==
    /\ InRelease /\ pc = "Aborted" /\ abortedAt = "ValidatingState"
    /\ gitClean /\ args.dry_run
    /\ tag \in envBefore.tags
    /\ exitCode = 1

\* C2: a dry run invokes no subprocess that changes the repository, dist/ or
\* the remote, whatever --no-pypi, --no-deb, --no-github and whether gh is
\* installed; it asks no confirmation, is aborted only in ResolvingVersion or
\* ValidatingState, has a next step in every state from Tagging to
\* Summarizing, and ends with exit code 0 and a summary.
C2_DryRunNoMutation ==
    (InRelease /\ args.dry_run)
    => /\ NothingInvoked
       /\ ghResult \in {"none", "absent", "dryrun"}
       /\ confirmed = "unasked"
       /\ pc = "Aborted" => abortedAt \in {"ResolvingVersion", "ValidatingState"}
       /\ pc \in {"Tagging", "PushingCommits", "PushingTags", "BuildingPyPI",
                  "BuildingDeb", "CollectingNotes", "PublishingRelease",
                  "Summarizing"} => ENABLED ReleaseStep
       /\ pc = "Done" => exitCode = 0 /\ summary # {}

\* A dry run with both kinds requested and gh absent, after its summary.
C2_Witness ==
    /\ InRelease /\ args.dry_run /\ pc = "Done"
    /\ ~args.no_pypi /\ ~args.no_deb /\ ~args.no_github
    /\ ghResult = "absent"
    /\ attempted = {"pypi", "deb"}

\* C3: a run given --version goes past ResolvingVersion, with that version,
\* also when setup.py is missing or assigns no version.
C3_ExplicitVersionProceeds ==
    (InRelease /\ Truthy(args.version))
    => /\ abortedAt # "ResolvingVersion"
       /\ version # <<>> => version = args.version.val

\* C4: a release run whose tag was already there when it started (only a
\* non-dry-run Tagging step of an earlier run for the same version creates a
\* tag) is aborted at ValidatingState and invokes no tagging, build or publish
\* step; a dry run leaves the tags as they were, and the gate stops a run only
\* for a repository that is not clean or a tag that exists.
C4_IdempotenceGuard ==
    /\ []( (InRelease /\ version # <<>> /\ tag \in envBefore.tags
                      /\ pc # "ValidatingState")
           => /\ pc = "Aborted"
              /\ abortedAt = "ValidatingState"
              /\ exitCode \in 1..255
              /\ NothingInvoked )
    /\ []( (InRelease /\ args.dry_run) => tags = envBefore.tags )
    /\ []( (InRelease /\ abortedAt = "ValidatingState")
           => (~gitClean \/ tag \in envBefore.tags) )
    /\ [][ tags' # tags
           => /\ InRelease /\ ~args.dry_run /\ pc = "Tagging"
              /\ tag \notin tags
              /\ tags' = tags \cup {tag} ]_vars

\* A real run, in a clean repository, for the version of setup.py, stopped
\* because an earlier run has created its tag.
C4_Witness ==
    /\ InRelease /\ ~args.dry_run /\ ~Truthy(args.version)
    /\ gitClean /\ tag \in envBefore.tags
    /\ pc = "Aborted" /\ abortedAt = "ValidatingState"
    /\ calls = <<>>

\* The states of main after the PyPI build and before the end.
AfterPyPIBuild == {"BuildingDeb", "CollectingNotes", "PublishingRelease", "Summarizing"}

C6_DebVersionMatchesRelease ==
    (InRelease /\ debVersion # <<>>) => debVersion = version \o <<"-", "1">>

\* C7: no step removes a file from dist/ or dist/deb/.
C7_DistAppendOnly ==
    [][dist \subseteq dist' /\ distDeb \subseteq distDeb']_vars

\* C8: the summary reports a kind as built only if it was requested, the run
\* was not a dry run and its build succeeded, and reports a failed kind as
\* failed.
C8_SummaryAccuracy ==
    (InRelease /\ pc = "Done")
    => /\ "PyPI packages built" \in summary
            => (~args.no_pypi /\ ~args.dry_run /\ pypi_success)
       /\ "Debian package built" \in summary
            => (~args.no_deb /\ ~args.dry_run /\ deb_success)
       /\ ~pypi_success => "PyPI packages failed" \in summary
       /\ ~deb_success => "Debian package failed" \in summary

\* How a run of deb_publish.py can end because of a fatal condition.
DebFatalEnds == {"missing_files", "invalid_choice", "missing_tools", "eof",
                 "declined_install", "subprocess_failed"}

\* How a run of deb_publish.py can end otherwise.
DebPeacefulEnds == {"chose_exit", "interrupted", "checked", "installed", "built",
                    "no_artifact"}

\* C9: a run of release.py aborted in ResolvingVersion, ValidatingState or
\* Tagging (tag or push failed) has an exit code in 1..255, and its exit code
\* is 0 only after the summary or when the operator declined; a run of
\* deb_publish.py ended by a fatal condition has an exit code in 1..255, and
\* its exit code is 0 only when it ended otherwise.
C9_FatalNonZero ==
    /\ (InRelease /\ pc = "Aborted")
         => /\ exitCode \in 0..255
            /\ abortedAt \in {"ResolvingVersion", "ValidatingState", "Tagging"}
                 => exitCode # 0
            /\ exitCode = 0 => (confirmed = "no" /\ abortedAt = "AwaitingConfirmation")
    /\ (InRelease /\ exitCode = 0) => (pc = "Done" \/ confirmed = "no")
    /\ debPc = "exited"
         => /\ debExit \in 0..255
            /\ debEnd \in DebFatalEnds \cup DebPeacefulEnds
            /\ debEnd \in DebFatalEnds => debExit # 0
            /\ debExit = 0 => debEnd \in DebPeacefulEnds

\* git push was killed by a signal and release.py ended with status 247.
C9_Witness ==
    /\ InRelease /\ pc = "Aborted" /\ abortedAt = "Tagging"
    /\ Len(calls) = 2 /\ calls[2] = "git push main"
    /\ exitCode = 247

\* C10: when gh is absent or exits non-zero the run goes on to Summarizing and
\* ends with exit code 0; the tag it created is still there and the assets
\* it collected are still in dist/.
C10_RemoteFailureSoft ==
    (InRelease /\ ghResult \in {"absent", "failed"})
    => /\ pc \in {"Summarizing", "Done"}
       /\ pc = "Summarizing" => ENABLED Summarize
       /\ pc = "Done" => exitCode = 0 /\ summary # {}
       /\ ~args.dry_run => tag \in tags
       /\ envBefore.tags \subseteq tags
       /\ assets \subseteq dist \cup distDeb
       /\ ghResult = "failed" => assets = ReleaseAssets

\* gh failed after both kinds were built and collected; the run is done.
C10_Witness ==
    /\ InRelease /\ pc = "Done" /\ ghResult = "failed"
    /\ pypi_success /\ deb_success
    /\ assets # {} /\ assets \cap DebNames # {} /\ assets \cap WheelNames # {}
    /\ tag \in tags

\* The state-changing calls of a real run in which both builds went through
\* publish.py and deb_publish.py, before the remote release.
CallsUpToBuilds ==
    <<"git tag", "git push main", "git push tags", "publish.py",
      "python -m build", "deb_publish.py", "dpkg-buildpackage">>

\* C11: a real run with both kinds and the remote release requested, confirmed
\* by the operator, whose two builds succeeded and which found gh absent, is
\* at Summarizing or done with exit code 0; it has tagged, pushed and built
\* and has not called gh, and a wheel is in dist/ and a .deb in dist/deb/.
C11_EndToEnd ==
    ( /\ InRelease /\ ~args.dry_run
      /\ ~args.no_pypi /\ ~args.no_deb /\ ~args.no_github
      /\ confirmed = "yes"
      /\ pubPc = "exited" /\ debPc = "exited"
      /\ pypi_success /\ deb_success
      /\ ghResult = "absent" )
    => /\ pc \in {"Summarizing", "Done"}
       /\ pc = "Summarizing" => ENABLED Summarize
       /\ pc = "Done" => exitCode = 0 /\ summary # {}
       /\ gitClean /\ tag \notin envBefore.tags /\ tag \in tags
       /\ calls = CallsUpToBuilds
       /\ assets = {}
       /\ dist \cap WheelNames # {}
       /\ distDeb \cap DebNames # {}
       /\ copied # {} /\ copied \subseteq distDeb

\* The run for the version of setup.py is done: tag created, both artifacts
\* in place, no remote release.
C11_Witness ==
    /\ InRelease /\ pc = "Done" /\ exitCode = 0
    /\ ~Truthy(args.version) /\ confirmed = "yes"
    /\ ~args.no_pypi /\ ~args.no_deb /\ ~args.no_github
    /\ pypi_success /\ deb_success /\ ghResult = "absent"
    /\ pubExit = 0 /\ debEnd = "built"
    /\ "kport.whl" \in dist /\ "kport.deb" \in distDeb

\* C12: a real run that has no affirmative answer to the confirmation has
\* invoked no tagging, push, build or publish step and is not past the
\* prompt; after any other answer it has ended with nothing invoked; a dry
\* run is never asked.
C12_ConfirmationGate ==
    /\ (InRelease /\ ~args.dry_run /\ confirmed # "yes")
         => /\ NothingInvoked
            /\ ghResult = "none"
            /\ pc \in {"ResolvingVersion", "ValidatingState",
                       "AwaitingConfirmation", "Aborted"}
    /\ (InRelease /\ confirmed = "no")
         => /\ pc = "Aborted" /\ abortedAt = "AwaitingConfirmation"
            /\ exitCode = 0
    /\ (InRelease /\ args.dry_run) => confirmed = "unasked"
    /\ (InRelease /\ ~args.dry_run /\ pc \notin {"ResolvingVersion", "ValidatingState",
                                                  "AwaitingConfirmation", "Aborted"})
         => confirmed = "yes"

\* The operator declined and the run ended there.
C12_Witness ==
    /\ InRelease /\ ~args.dry_run /\ confirmed = "no"
    /\ pc = "Aborted" /\ abortedAt = "AwaitingConfirmation"
    /\ calls = <<>> /\ tags = envBefore.tags

\* C13: after _copy_new_debs the new names are exactly those of the build's
\* parent directory that are not in the snapshot taken before the builder
\* ran; no name of the snapshot is reported as new or copied to dist/deb/.
C13_NewArtifactSet ==
    debPc = "copied"
    => /\ copied = buildParent \ before
       /\ copied \cap before = {}
       /\ distDeb = copied
       /\ distDeb \cap before = {}

\* Two names were there before the build, one of them still is, and one new
\* name was copied.
C13_Witness ==
    /\ debPc = "copied"
    /\ before = {"kport.deb", "kport-doc.deb"}
    /\ buildParent = {"kport.deb", "kport-dbgsym.deb"}
    /\ copied = {"kport-dbgsym.deb"}

\* The positions of a subprocess in the calls of the run.
CallIndexes(cmd) == {i \in DOMAIN calls : calls[i] = cmd}

\* C14: dist/deb/ gains files only in the collecting step of a build call
\* whose builder has exited with code 0; a build call whose builder exited
\* non-zero, or that was interrupted, has copied nothing and returned
\* nothing, and no step of deb_publish.py changes setup.py.
C14_CopyOnlyAfterBuilderZero ==
    /\ [][ ~(distDeb' \subseteq distDeb)
           => /\ debPc = "collect" /\ builderRc = 0
              /\ CallIndexes("dpkg-buildpackage") # {}
              /\ distDeb' = distDeb \cup NewDebs(buildParent, before)
              /\ dist' = dist /\ setup' = setup ]_vars
    /\ [][ (debPc # "off" /\ debPc' # "off") => setup' = setup ]_vars
    /\ []( (debPc = "exited" /\ builderRc # 0)
           => /\ copied = {} /\ ~deb.ok
              /\ debEnd # "built" )
    /\ []( debPc = "collect" => builderRc = 0 )

\* The builder was killed by a signal after an earlier build had left a .deb
\* in dist/deb/: nothing was copied.
C14_Witness ==
    /\ tool = "deb" /\ debPc = "exited"
    /\ builderRc = 0 - 9
    /\ debEnd = "subprocess_failed"
    /\ copied = {} /\ distDeb = {"kport.deb"}

\* C15: build_deb returns none exactly when the builder exited 0 and no new
\* .deb was found; after a non-zero exit of the builder the call has ended
\* with the exit status of that code, returning neither none nor an artifact.
C15_NoneIffNoArtifact ==
    /\ debEnd = "no_artifact"
         => /\ builderRc = 0 /\ copied = {} /\ ~deb.ok /\ debExit = 0
    /\ (debPc = "exited" /\ builderRc = 0)
         => /\ debEnd \in {"no_artifact", "built"}
            /\ debEnd = "no_artifact" <=> copied = {}
            /\ debEnd = "built" <=> deb.ok
            /\ deb.ok => deb.val \in copied
    /\ builderRc \notin {0, Running}
         => /\ debPc = "exited" /\ debEnd = "subprocess_failed"
            /\ debExit = ExitStatus(builderRc) /\ debExit \in 1..255
            /\ ~deb.ok /\ copied = {}

\* The builder exited 0 and left no .deb: main returned with the none result.
C15_Witness ==
    /\ tool = "deb" /\ debPc = "exited" /\ debEnd = "no_artifact"
    /\ builderRc = 0 /\ debExit = 0
    /\ calls = <<"dpkg-buildpackage">>

\* C16: a generated debian/ is only ever in the temporary copy, never in the
\* repository; once the with block of the check or of the build is left, on
\* any path, the temporary directory and the skeleton are gone.
C16_SkeletonEphemeral ==
    /\ skeletonDirs \subseteq {"tmp"}
    /\ skeletonDirs # {} => tmpDir \in {"check", "build"}
    /\ debPc \in {"check_deps", "run_builder", "collect"} <=> tmpDir # "none"
    /\ tmpDir # "none" => skeletonDirs = {"tmp"}
    /\ debPc \in {"prompt_install", "apt_update", "apt_install", "build", "exited", "off"}
         => (tmpDir = "none" /\ skeletonDirs = {} /\ buildParent = {})

\* The builder failed after the skeleton had been generated for the check and
\* for the build: nothing of it is left.
C16_Witness ==
    /\ debPc = "exited" /\ debEnd = "subprocess_failed"
    /\ builderRc = 1 /\ debVersion # <<>>
    /\ tmpDir = "none" /\ skeletonDirs = {}

\* C18: in a build command whose preflight reported unmet build dependencies
\* the builder is started only at a terminal, after apt-get update and
\* apt-get install were run (and so exited 0); when the operator declines,
\* or an installation subprocess fails, the tool exits non-zero and the
\* builder is never started.
C18_InstallGate ==
    (debPc # "off" /\ debChoice \in {"3", "4"} /\ unmet # <<>>)
    => /\ CallIndexes("dpkg-buildpackage") # {}
            => /\ debStdin = "tty"
               /\ \E i \in CallIndexes("apt-get update") :
                  \E j \in CallIndexes("apt-get install") :
                     /\ i < j
                     /\ \A k \in CallIndexes("dpkg-buildpackage") : j < k
       /\ debPc \in {"build", "run_builder", "collect"}
            => CallIndexes("apt-get install") # {}
       /\ debEnd \in {"declined_install", "eof"}
            => /\ debExit \in 1..255
               /\ CallIndexes("dpkg-buildpackage") = {}
               /\ CallIndexes("apt-get update") = {}
       /\ (debEnd = "subprocess_failed" /\ builderRc = Running)
            => /\ debExit \in 1..255
               /\ CallIndexes("dpkg-buildpackage") = {}

\* Unmet dependencies, the operator accepted, both apt-get calls exited 0 and
\* the package was built.
C18_Witness ==
    /\ tool = "deb" /\ debChoice = "3" /\ unmet # <<>>
    /\ calls = <<"apt-get update", "apt-get install", "dpkg-buildpackage">>
    /\ debEnd = "built"

\* Whether the name of a file holds the debug-symbol marker.
IsDebugName(f) == Contains(Dbgsym, FileName(f))

\* C17: for a non-empty set of copied files the returned one is a copied
\* file, is not a debug-symbol file if any copied file is not, and no copied
\* file of its own class has a smaller name.
C17_CanonicalArtifact ==
    (debPc = "copied" /\ copied # {})
    => /\ deb.ok /\ deb.val \in copied
       /\ (\E g \in copied : ~IsDebugName(g)) => ~IsDebugName(deb.val)
       /\ \A g \in copied :
             IsDebugName(g) = IsDebugName(deb.val)
             => ~StrLess(FileName(g), FileName(deb.val))

\* Of kport.deb and two debug-symbol files with smaller names, kport.deb is
\* returned.
C17_Witness ==
    /\ debPc = "copied"
    /\ copied = {"kport.deb", "kport-dbgsym.deb", "a-dbgsym.deb"}
    /\ deb = Some("kport.deb")

\* C19: check_debian_build_deps returns the empty list when the helper is not
\* on PATH or exits 0, whatever its output.
C19_ZeroExitEmpty ==
    (debPc = "checked" /\ (~proc.available \/ proc.returncode = 0))
    => unmet = <<>>

\* The helper exited 0 with the unmet-dependencies line on stderr.
C19_Witness ==
    /\ debPc = "checked"
    /\ proc.available /\ proc.returncode = 0
    /\ MarkerIndexes(proc.stderr) # {}
    /\ parse_unmet_build_deps(proc.stderr) # <<>>
    /\ unmet = <<>>

\* The text the helper's output is parsed as.
Combined == proc.stdout \o <<"\n">> \o proc.stderr

\* What follows the first marker up to the end of its line.
RestOfMarkerLine(output) ==
    LET from == Min(MarkerIndexes(output)) + Len(Marker)
    IN  SubSeq(output, from, LineEnd(output, from) - 1)

\* C20: the parsed result is, in order, the leading package name of each
\* non-empty comma-separated token after the marker on the marker's line,
\* tokens without one dropped; it is empty when the marker is absent.
C20_ParseMarkerLine ==
    (debPc = "checked" /\ proc.available /\ proc.returncode # 0)
    => unmet = IF MarkerIndexes(Combined) = {} THEN <<>>
               ELSE PackageNames(RestOfMarkerLine(Combined))

\* X lies at a..b of t in an assignment of the keyword at i: the keyword does
\* not continue a longer name, "=" follows it with or without whitespace, and
\* X is not empty, holds no quote and stands between two quotes.
IsVersionAssignment(t, i, a, b) ==
    /\ i + Len(Kw) - 1 <= Len(t)
    /\ SubSeq(t, i, i + Len(Kw) - 1) = Kw
    /\ i > 1 => ~IsWord(t[i - 1])
    /\ \E e \in (i + Len(Kw))..(a - 2) :
          /\ t[e] = "="
          /\ \A k \in ((i + Len(Kw))..(a - 2)) \ {e} : IsSpace(t[k])
    /\ a <= b /\ b < Len(t)
    /\ IsQuote(t[a - 1]) /\ IsQuote(t[b + 1])
    /\ \A k \in a..b : ~IsQuote(t[k])

\* The value of the first assignment of the keyword in the text, trimmed; None
\* when setup.py is missing or holds no such assignment.
FirstAssignedVersion(text) ==
    IF ~text.ok THEN None
    ELSE LET t == text.val
             at(i) == {ab \in (1..Len(t)) \X (1..Len(t)) : IsVersionAssignment(t, i, ab[1], ab[2])}
             first == {i \in 1..Len(t) : at(i) # {}}
         IN  IF first = {} THEN None
             ELSE LET ab == CHOOSE x \in at(Min(first)) : TRUE
                  IN  Some(Strip(SubSeq(t, ab[1], ab[2])))

\* C21: whatever setup.py holds, each of the two version resolvers returns the
\* trimmed value of the first assignment of the keyword `version` itself, and
\* None when the file is missing or holds no such assignment.
C21_FirstAssignmentOrNone ==
    debPc = "versions_read"
        => /\ current_version = FirstAssignedVersion(setup)
           /\ read_version = FirstAssignedVersion(setup)

\* The reports in which the helper names its version in the usual wording.
DhReports(n) ==
    {h \o str(n) \o t :
        h \in {Debhelper \o <<" ">> \o Kw \o <<" ">>,
               <<"x", " ">> \o Debhelper \o <<" ">> \o Kw \o <<" ">>},
        t \in FnDhTails}

\* C22: the compatibility level of the skeleton is an integer >= 12 whatever
\* became of the helper: 12 when it is absent, when it fails and when its
\* report names no version, max(12, n) when it reports major version n; and
\* debian/compat holds that level as a bare integer.
C22_CompatLevel ==
    debPc = "compat_written"
        => /\ compat \in Nat /\ compat >= 12
           /\ ~dh.available => compat = 12
           /\ (dh.available /\ dh.returncode # 0) => compat = 12
           /\ (\A i \in 1..Len(dh.out) : dh.out[i] \notin Digits) => compat = 12
           /\ (\A i \in 1..Len(dh.out) : LowerChar(dh.out[i]) # "v") => compat = 12
           /\ \A n \in 0..120 :
                 (dh.available /\ dh.returncode = 0 /\ dh.out \in DhReports(n))
                    => compat = IF n > 12 THEN n ELSE 12
           /\ Len(compatFile) >= 2
           /\ compatFile[Len(compatFile)] = "\n"
           /\ \A i \in 1..(Len(compatFile) - 1) : compatFile[i] \in Digits
           /\ int(SubSeq(compatFile, 1, Len(compatFile) - 1)) = compat

\* A helper that reports a major version above 12, and the file written for it.
C22_Witness ==
    /\ debPc = "compat_written"
    /\ dh.available /\ dh.returncode = 0 /\ dh.out \in DhReports(100)
    /\ compat = 100
    /\ compatFile = <<"1", "0", "0", "\n">>

\* The three subprocesses of step 4, in the order of lines 343-345.
TagCalls == <<"git tag", "git push main", "git push tags">>

\* The release run has come to the builds or further.
PastTagging ==
    \/ pc \in {"BuildingPyPI", "AwaitingPyPI", "BuildingDeb", "AwaitingDeb",
               "CollectingNotes", "PublishingRelease", "Summarizing", "Done"}
    \/ pc = "Aborted" /\ abortedAt # "Tagging" /\ calls # <<>>
    \/ Len(calls) > Len(TagCalls)
    \/ pubPc # "off" \/ debPc # "off" \/ ghResult # "none"

\* C23: in a release run that is not a dry run the subprocesses come in the
\* order git tag, git push of the commits, git push of the tags, none of them
\* twice; each of the pushes is started only when the subprocess before it has
\* exited 0; a build or the remote release is reached only after all three
\* exited 0; and a run aborted in the tagging step has ended with the exit
\* status of the failed subprocess, which is not 0, and has started nothing
\* after it.
C23_TaggingOrder ==
    /\ [](( InRelease /\ ~args.dry_run )
          => LET n == Min({Len(calls), Len(TagCalls)})
             IN  /\ SubSeq(calls, 1, n) = SubSeq(TagCalls, 1, n)
                 /\ \A i \in DOMAIN calls :
                       i > Len(TagCalls) => \A k \in DOMAIN TagCalls : calls[i] # TagCalls[k]
                 /\ PastTagging
                       => /\ Len(calls) >= Len(TagCalls)
                          /\ run_rc = 0
                          /\ tag \in tags
                 /\ (pc = "Aborted" /\ abortedAt = "Tagging")
                       => /\ Len(calls) \in 1..Len(TagCalls)
                          /\ run_rc # 0
                          /\ exitCode = ExitStatus(run_rc)
                          /\ exitCode \in 1..255
                          /\ run_rc \in 1..255 => exitCode = run_rc
                          /\ pubPc = "off" /\ debPc = "off"
                          /\ ghResult = "none" /\ assets = {}
                          /\ dist = envBefore.dist /\ distDeb = envBefore.distDeb)
    /\ [][ ( /\ InRelease
             /\ \E k \in 2..Len(TagCalls) : calls' = Append(calls, TagCalls[k]) )
           => /\ run_rc = 0
              /\ calls = SubSeq(TagCalls, 1, Len(calls))
              /\ pc \in {"PushingCommits", "PushingTags"} ]_vars

\* The tag was created and the commits were pushed, the push of the tags
\* failed, and the run ended there with the status of that push.
C23_Witness ==
    /\ InRelease /\ ~args.dry_run
    /\ pc = "Aborted" /\ abortedAt = "Tagging"
    /\ calls = TagCalls
    /\ run_rc = 1 /\ exitCode = 1
    /\ tag \in tags

\* The wheels built by publish.py in this release run: what dist/ holds after
\* a build of this run that was recorded as a success.
WheelsOfThisRun ==
    IF /\ ~args.no_pypi /\ pypi_success
       /\ \E i \in DOMAIN calls : calls[i] = "python -m build"
    THEN dist \cap WheelNames
    ELSE {}

\* The .deb files built by deb_publish.py in this release run: what its build
\* copied to dist/deb/, when the build was recorded as a success.
DebsOfThisRun ==
    IF /\ ~args.no_deb /\ deb_success
       /\ \E i \in DOMAIN calls : calls[i] = "dpkg-buildpackage"
    THEN copied
    ELSE {}

\* C24: every file handed to `gh release create` was built in this release
\* run, by a build of a kind that was not switched off and did not fail; no
\* file that an earlier run left in dist/ or dist/deb/ and no source archive is
\* among them.
C24_AssetsOfThisRun ==
    (InRelease /\ \E i \in DOMAIN calls : calls[i] = "gh release create")
        => /\ assets \subseteq WheelsOfThisRun \cup DebsOfThisRun
           /\ assets \cap SdistNames = {}

\* C25: the release run records the Debian kind as built only when
\* deb_publish.py, started in this run, exited 0 and copied a new .deb to
\* dist/deb/ in this run; a build that exited 0 without finding a new artifact
\* is recorded as not built, whatever dist/deb/ held before.
C25_DebSuccessMeansNewArtifact ==
    ( /\ InRelease /\ ~args.dry_run /\ ~args.no_deb
      /\ pc \in {"CollectingNotes", "PublishingRelease", "Summarizing", "Done"} )
        => /\ deb_success => (debPc = "exited" /\ debExit = 0 /\ copied # {})
           /\ (debPc = "exited" /\ debEnd = "no_artifact") => ~deb_success

\* C26: on every setup.py the resolver of release.py and the resolver of
\* deb_publish.py return the same: the same version, or None both.
C26_ResolversEquivalent ==
    debPc = "versions_read" => current_version = read_version

====
